---- MODULE Spec2Model ----
\* Model of package sqler (src/sqler.go): interface wrappers over database/sql.
\*
\* Every wrapper method is an operator that maps its receiver and the outcomes
\* of the native calls it makes to the sequence of native calls it issues and
\* the value it returns.  The native side (database/sql) is the environment:
\* it keeps which connections are open, which transactions are active and on
\* what they were begun, and answers each native call with one of the
\* outcomes database/sql can produce in that state.
EXTENDS Integers, Sequences, FiniteSets

\* ---------------------------------------------------------------- bounds
MaxConns == 1
MaxTxs == 1
MaxStmts == 2

ConnIds == 1..MaxConns
TxIds == 1..MaxTxs
StmtIds == 1..MaxStmts

\* ---------------------------------------------------------------- values
\* Go's nil (a nil pointer, a nil interface value) and the nil error.
Nil == [kind |-> "nil", id |-> 0]
NoErr == "nil"

\* References to native objects (pointers: equal iff the same object).
DBRef(i) == [kind |-> "DB", id |-> i]
ConnRef(i) == [kind |-> "Conn", id |-> i]
TxRef(i) == [kind |-> "Tx", id |-> i]
StmtRef(i) == [kind |-> "Stmt", id |-> i]
\* The *sql.DB handle the caller has.
NativeDBs == {DBRef(1)}
\* sql.Result values and *sql.Rows cursors the driver hands back.
Results == {[kind |-> "Result", id |-> i] : i \in {1, 2}}
Cursors == {[kind |-> "Rows", id |-> i] : i \in {1, 2}}
\* A *sql.Row: the error captured when the query failed before a row could
\* be fetched, or what the deferred fetch will find.
SQLRow(err, fetch) == [kind |-> "Row", err |-> err, fetch |-> fetch]
SQLRows == {SQLRow(e, "none") : e \in {"ErrDriver", "ErrConnDone"}}
             \cup {SQLRow(NoErr, f) : f \in {"row", "norows"}}

Ret(val, err) == [val |-> val, err |-> err]
Call(op, target, arg, ret) == [op |-> op, target |-> target, arg |-> arg, ret |-> ret]
\* What a wrapper method does: the native calls it issues, in order, what it
\* returns, and whether a Scan destination was written.
Did(calls, ret) == [calls |-> calls, ret |-> ret, wrote |-> FALSE]

VARIABLES
    native,   \* database/sql's side: connections, transactions, statements
    conns,    \* the Conn wrapper the caller holds for each native connection
    txs,      \* the Tx wrapper the caller holds for each native transaction
    stmts,    \* the Stmt wrapper the caller holds for each native statement
    last      \* the last operation of this layer: receiver, native calls, result

vars == <<native, conns, txs, stmts, last>>

\* ------------------------------------------------- the native environment
\* A closed connection refuses every call with ErrConnDone; any other call
\* may fail with an error of the driver (a transaction that has ended, by
\* Commit, Rollback or the cancellation of its context, is such a failure).
Unusable(ns, t) == t.kind = "Conn" /\ ns.conn[t.id] = "closed"
FailErrs(ns, t) == IF Unusable(ns, t) THEN {"ErrConnDone"} ELSE {"ErrDriver"}

HasFree(f) == \E i \in DOMAIN f : f[i] = "free"
FirstFree(f) == CHOOSE i \in DOMAIN f : f[i] = "free" /\ \A j \in DOMAIN f : j < i => f[j] # "free"

\* c.ret is an answer database/sql can give to the native call c in state ns.
Feasible(ns, c) ==
    LET v == c.ret.val
        e == c.ret.err
        fails == v = Nil /\ e \in FailErrs(ns, c.target)
        live == ~Unusable(ns, c.target)
    IN  CASE c.op = "sql.Open" ->
                 \/ v \in NativeDBs /\ e = NoErr
                 \/ v = Nil /\ e = "ErrDriver"
          [] c.op = "Conn" ->
                 \/ HasFree(ns.conn) /\ v = ConnRef(FirstFree(ns.conn)) /\ e = NoErr
                 \/ fails
          [] c.op = "BeginTx" ->
                 \/ live /\ HasFree(ns.tx) /\ v = TxRef(FirstFree(ns.tx)) /\ e = NoErr
                 \/ fails
          [] c.op \in {"Commit", "Rollback"} ->
                 v = Nil /\ e \in {NoErr} \cup FailErrs(ns, c.target)
          [] c.op = "Close" ->
                 /\ v = Nil
                 /\ IF ns.conn[c.target.id] = "closed" THEN e = "ErrConnDone"
                    ELSE e \in {NoErr, "ErrDriver"}
          [] c.op = "PingContext" ->
                 /\ v = Nil
                 /\ IF Unusable(ns, c.target) THEN e = "ErrConnDone"
                    ELSE e \in {NoErr, "ErrDriver"}
          [] c.op = "ExecContext" -> (live /\ v \in Results /\ e = NoErr) \/ fails
          [] c.op = "QueryContext" -> (live /\ v \in Cursors /\ e = NoErr) \/ fails
          [] c.op = "PrepareContext" ->
                 \/ live /\ HasFree(ns.stmt) /\ v = StmtRef(FirstFree(ns.stmt)) /\ e = NoErr
                 \/ fails
          [] c.op = "StmtContext" ->
                 HasFree(ns.stmt) /\ v = StmtRef(FirstFree(ns.stmt)) /\ e = NoErr
          [] c.op = "QueryRowContext" ->
                 /\ e = NoErr
                 /\ v \in SQLRows
                 /\ v.err \in FailErrs(ns, c.target) \cup (IF Unusable(ns, c.target) THEN {} ELSE {NoErr})
          [] c.op = "Scan" ->
                 /\ v = Nil
                 /\ e = IF c.target.err # NoErr THEN c.target.err
                        ELSE IF c.target.fetch = "row" THEN NoErr ELSE "ErrNoRows"

\* The native state after database/sql has served the call c.
Apply(ns, c) ==
    LET ok == c.ret.err = NoErr
    IN  CASE c.op = "Conn" /\ ok -> [ns EXCEPT !.conn[c.ret.val.id] = "open"]
          [] c.op = "BeginTx" /\ ok ->
                 [ns EXCEPT !.tx[c.ret.val.id] = "active", !.txOn[c.ret.val.id] = c.target]
          [] c.op = "Close" -> [ns EXCEPT !.conn[c.target.id] = "closed"]
          [] c.op \in {"PrepareContext", "StmtContext"} /\ ok ->
                 [ns EXCEPT !.stmt[c.ret.val.id] = "open"]
          [] OTHER -> ns

RECURSIVE FeasibleRun(_, _)
FeasibleRun(ns, calls) ==
    \/ calls = <<>>
    \/ /\ calls # <<>>
       /\ Feasible(ns, Head(calls))
       /\ FeasibleRun(Apply(ns, Head(calls)), Tail(calls))

RECURSIVE Run(_, _)
Run(ns, calls) == IF calls = <<>> THEN ns ELSE Run(Apply(ns, Head(calls)), Tail(calls))

\* The answers database/sql can give to a native call op in some state; which
\* of them it can give in the current state is Feasible's to say.
Fails == {Ret(Nil, e) : e \in {"ErrDriver", "ErrConnDone"}}
ErrOnly == {Ret(Nil, NoErr)} \cup Fails
Answers(op) ==
    CASE op = "sql.Open" -> {Ret(d, NoErr) : d \in NativeDBs} \cup Fails
      [] op = "Conn" -> {Ret(ConnRef(i), NoErr) : i \in ConnIds} \cup Fails
      [] op = "BeginTx" -> {Ret(TxRef(i), NoErr) : i \in TxIds} \cup Fails
      [] op \in {"PrepareContext", "StmtContext"} ->
             {Ret(StmtRef(i), NoErr) : i \in StmtIds} \cup Fails
      [] op = "ExecContext" -> {Ret(r, NoErr) : r \in Results} \cup Fails
      [] op = "QueryContext" -> {Ret(r, NoErr) : r \in Cursors} \cup Fails
      [] op = "QueryRowContext" -> {Ret(r, NoErr) : r \in SQLRows}
      [] op = "Scan" -> ErrOnly \cup {Ret(Nil, "ErrNoRows")}
      [] OTHER -> ErrOnly

\* ------------------------------------------------------------- wrappers
\* Conversion of a native pointer to the interface type Rows or Row: the
\* interface value holds the pointer, and is non-nil even when the pointer is.
ToRows(p) == [type |-> "*sql.Rows", ptr |-> p]
ToRow(p) == [type |-> "*sql.Row", ptr |-> p]

WrapQueryer(q) == [type |-> "wrappedQueryer", SQLQueryer |-> q]
WrapDB(db) == [type |-> "wrappedDB", DB |-> db, queryer |-> WrapQueryer(db)]
WrapConn(c) == [type |-> "wrappedConn", c |-> c, Queryer |-> WrapQueryer(c)]
WrapStmt(stmt) == [type |-> "wrappedStmt", Stmt |-> stmt]
wrappedTx(tx, q) == [type |-> "wrappedTx", tx |-> tx, Queryer |-> q]
connTx(c, tx) == [type |-> "connTx", c |-> c, Tx |-> tx]
errRow(err) == [type |-> "errRow", err |-> err]

Open(o) ==
    LET db == o.val
        err == o.err
        calls == <<Call("sql.Open", Nil, Nil, o)>>
    IN  IF err # NoErr THEN Did(calls, Ret(Nil, err))
        ELSE Did(calls, Ret(WrapDB(db), NoErr))

wrappedDB_Conn(db, o) ==
    LET c == o.val
        err == o.err
        calls == <<Call("Conn", db.DB, Nil, o)>>
    IN  IF err # NoErr THEN Did(calls, Ret(Nil, err))
        ELSE Did(calls, Ret(WrapConn(c), NoErr))

\* Mutant: Unwrap loses the handle.
wrappedDB_Unwrap_Nil(db) == Nil

wrappedDB_Unwrap(db) == db.DB

wrappedDB_BeginTx(db, o) ==
    LET tx == o.val
        err == o.err
        calls == <<Call("BeginTx", db.DB, Nil, o)>>
    IN  IF err # NoErr THEN Did(calls, Ret(Nil, err))
        ELSE Did(calls, Ret(wrappedTx(tx, WrapQueryer(tx)), NoErr))

\* Mutant: the transaction's queries are bound to the connection, not to the
\* native transaction.
wrappedConn_BeginTx_OnConn(c, o) ==
    LET tx == o.val
        err == o.err
        calls == <<Call("BeginTx", c.c, Nil, o)>>
    IN  IF err # NoErr THEN Did(calls, Ret(Nil, err))
        ELSE Did(calls, Ret(wrappedTx(tx, WrapQueryer(c.c)), NoErr))

wrappedConn_BeginTx(c, o) ==
    LET tx == o.val
        err == o.err
        calls == <<Call("BeginTx", c.c, Nil, o)>>
    IN  IF err # NoErr THEN Did(calls, Ret(Nil, err))
        ELSE Did(calls, Ret(wrappedTx(tx, WrapQueryer(tx)), NoErr))

wrappedConn_Close(c, o) == Did(<<Call("Close", c.c, Nil, o)>>, Ret(Nil, o.err))

wrappedConn_Ping(c, o) == Did(<<Call("PingContext", c.c, Nil, o)>>, Ret(Nil, o.err))

\* Mutant: Commit rolls back.
wrappedTx_Commit_Rollback(tx, o) == Did(<<Call("Rollback", tx.tx, Nil, o)>>, Ret(Nil, o.err))

wrappedTx_Commit(tx, o) == Did(<<Call("Commit", tx.tx, Nil, o)>>, Ret(Nil, o.err))

wrappedTx_Rollback(tx, o) == Did(<<Call("Rollback", tx.tx, Nil, o)>>, Ret(Nil, o.err))

\* Mutant: the deferred Close's error replaces a successful commit's result.
connTx_Commit_CloseErr(tx, o, oc) ==
    LET body == wrappedTx_Commit(tx.Tx, o)
        deferred == wrappedConn_Close(tx.c, oc)
    IN  Did(body.calls \o deferred.calls,
            IF body.ret.err = NoErr THEN deferred.ret ELSE body.ret)

\* connTx{c, Tx}: tx.Tx is a wrappedTx and tx.c a wrappedConn.  The deferred
\* Close runs after the return value has been computed; its result is dropped.
connTx_Commit(tx, o, oc) ==
    LET body == wrappedTx_Commit(tx.Tx, o)
        deferred == wrappedConn_Close(tx.c, oc)
    IN  Did(body.calls \o deferred.calls, body.ret)

connTx_Rollback(tx, o, oc) ==
    LET body == wrappedTx_Rollback(tx.Tx, o)
        deferred == wrappedConn_Close(tx.c, oc)
    IN  Did(body.calls \o deferred.calls, body.ret)

\* Mutant: a failed ping returns before the connection is closed.
wrappedDB_Ping_LeakOnError(db, ol, o, oc) ==
    LET lease == wrappedDB_Conn(db, ol)
        conn == lease.ret.val
        err == lease.ret.err
    IN  IF err # NoErr THEN Did(lease.calls, Ret(Nil, err))
        ELSE LET body == wrappedConn_Ping(conn, o)
                 deferred == wrappedConn_Close(conn, oc)
             IN  IF body.ret.err # NoErr THEN Did(lease.calls \o body.calls, body.ret)
                 ELSE Did(lease.calls \o body.calls \o deferred.calls, body.ret)

wrappedDB_Ping(db, ol, o, oc) ==
    LET lease == wrappedDB_Conn(db, ol)
        conn == lease.ret.val
        err == lease.ret.err
    IN  IF err # NoErr THEN Did(lease.calls, Ret(Nil, err))
        ELSE LET body == wrappedConn_Ping(conn, o)
                 deferred == wrappedConn_Close(conn, oc)
             IN  Did(lease.calls \o body.calls \o deferred.calls, body.ret)

\* Mutant: a failed Exec is tried again.
wrappedQueryer_Exec_Retry(q, o) ==
    LET r == o.val
        err == o.err
        calls == <<Call("ExecContext", q.SQLQueryer, Nil, o)>>
    IN  IF err # NoErr THEN Did(calls \o calls, Ret(Nil, err))
        ELSE Did(calls, Ret(r, NoErr))

wrappedQueryer_Exec(q, o) ==
    LET r == o.val
        err == o.err
        calls == <<Call("ExecContext", q.SQLQueryer, Nil, o)>>
    IN  IF err # NoErr THEN Did(calls, Ret(Nil, err))
        ELSE Did(calls, Ret(r, NoErr))

wrappedQueryer_Prepare(q, o) ==
    LET s == o.val
        err == o.err
        calls == <<Call("PrepareContext", q.SQLQueryer, Nil, o)>>
    IN  IF err # NoErr THEN Did(calls, Ret(Nil, err))
        ELSE Did(calls, Ret(WrapStmt(s), NoErr))

\* Mutant: the native pair is returned unchecked, so a failure comes with a
\* non-nil Rows holding a nil cursor.
wrappedQueryer_Query_Unchecked(q, o) ==
    Did(<<Call("QueryContext", q.SQLQueryer, Nil, o)>>, Ret(ToRows(o.val), o.err))

wrappedQueryer_Query(q, o) ==
    LET rows == o.val
        err == o.err
        calls == <<Call("QueryContext", q.SQLQueryer, Nil, o)>>
    IN  IF err # NoErr THEN Did(calls, Ret(Nil, err))
        ELSE Did(calls, Ret(ToRows(rows), NoErr))

\* Mutant: a query that failed is reported at call time.
wrappedQueryer_QueryRow_Eager(q, o) ==
    LET calls == <<Call("QueryRowContext", q.SQLQueryer, Nil, o)>>
    IN  IF o.val.err # NoErr THEN Did(calls, Ret(Nil, o.val.err))
        ELSE Did(calls, Ret(ToRow(o.val), NoErr))

wrappedQueryer_QueryRow(q, o) ==
    Did(<<Call("QueryRowContext", q.SQLQueryer, Nil, o)>>, Ret(ToRow(o.val), NoErr))

\* db.queryer is the wrappedQueryer WrapDB built.
wrappedDB_Exec(db, o) == wrappedQueryer_Exec(db.queryer, o)
wrappedDB_Prepare(db, o) == wrappedQueryer_Prepare(db.queryer, o)
wrappedDB_Query(db, o) == wrappedQueryer_Query(db.queryer, o)
wrappedDB_QueryRow(db, o) == wrappedQueryer_QueryRow(db.queryer, o)

\* Mutant: Scan drops the captured error.
errRow_Scan_Nil(r) == Did(<<>>, Ret(Nil, NoErr))

errRow_Scan(r) == Did(<<>>, Ret(Nil, r.err))

wrappedTx_Stmt(tx, stmt, o) ==
    Did(<<Call("StmtContext", tx.tx, stmt.Stmt, o)>>, Ret(WrapStmt(o.val), NoErr))

wrappedStmt_Exec(s, o) ==
    LET r == o.val
        err == o.err
        calls == <<Call("ExecContext", s.Stmt, Nil, o)>>
    IN  IF err # NoErr THEN Did(calls, Ret(Nil, err))
        ELSE Did(calls, Ret(r, NoErr))

wrappedStmt_Query(s, o) ==
    LET w == o.val
        err == o.err
        calls == <<Call("QueryContext", s.Stmt, Nil, o)>>
    IN  IF err # NoErr THEN Did(calls, Ret(Nil, err))
        ELSE Did(calls, Ret(ToRows(w), NoErr))

wrappedStmt_QueryRow(s, o) ==
    Did(<<Call("QueryRowContext", s.Stmt, Nil, o)>>, Ret(ToRow(o.val), NoErr))

wrappedStmt_Unwrap(s) == s.Stmt

\* ------------------------------------------ method sets (interface dispatch)
\* The Queryer a wrapper's Exec, Prepare, Query and QueryRow are promoted
\* from: wrappedConn and wrappedTx embed a Queryer.
Embedded(w) == IF w.type = "wrappedQueryer" THEN w ELSE w.Queryer

Queryer_Exec(w, o) ==
    IF w.type = "wrappedDB" THEN wrappedDB_Exec(w, o) ELSE wrappedQueryer_Exec(Embedded(w), o)
Queryer_Prepare(w, o) ==
    IF w.type = "wrappedDB" THEN wrappedDB_Prepare(w, o) ELSE wrappedQueryer_Prepare(Embedded(w), o)
Queryer_Query(w, o) ==
    IF w.type = "wrappedDB" THEN wrappedDB_Query(w, o) ELSE wrappedQueryer_Query(Embedded(w), o)
Queryer_QueryRow(w, o) ==
    IF w.type = "wrappedDB" THEN wrappedDB_QueryRow(w, o) ELSE wrappedQueryer_QueryRow(Embedded(w), o)

Tx_Commit(tx, o, oc) ==
    IF tx.type = "connTx" THEN connTx_Commit(tx, o, oc) ELSE wrappedTx_Commit(tx, o)
Tx_Rollback(tx, o, oc) ==
    IF tx.type = "connTx" THEN connTx_Rollback(tx, o, oc) ELSE wrappedTx_Rollback(tx, o)

\* Row.Scan: an errRow answers by itself; a *sql.Row is database/sql's, whose
\* Scan writes the destinations only when it returns no error.
Row_Scan(r, o) ==
    IF r.type = "errRow" THEN errRow_Scan(r)
    ELSE [calls |-> <<Call("Scan", r.ptr, Nil, o)>>, ret |-> Ret(Nil, o.err),
          wrote |-> (o.err = NoErr)]

\* -------------------------------------------------------------- the state
Init ==
    /\ native = [conn |-> [i \in ConnIds |-> "free"], tx |-> [i \in TxIds |-> "free"],
                 txOn |-> [i \in TxIds |-> Nil], stmt |-> [i \in StmtIds |-> "free"]]
    /\ conns = [i \in ConnIds |-> Nil]
    /\ txs = [i \in TxIds |-> Nil]
    /\ stmts = [i \in StmtIds |-> Nil]
    /\ last = [op |-> "init", recv |-> Nil, from |-> Nil, calls |-> <<>>,
               ret |-> Ret(Nil, NoErr), wrote |-> FALSE]

\* The wrappers the caller can call on, each with the native object it was
\* wrapped from (the handle given to the constructor, or the object the
\* native call that produced the wrapper created).
DBRecvs == {<<WrapDB(d), d>> : d \in NativeDBs}
ConnRecvs == {<<conns[i], ConnRef(i)>> : i \in {j \in ConnIds : conns[j] # Nil}}
PlainTxRecvs == {<<txs[i], TxRef(i)>> : i \in {j \in TxIds : txs[j] # Nil}}
\* A connTx couples a transaction with the Conn wrapper it was begun on.
ConnTxRecvs ==
    {<<connTx(conns[native.txOn[i].id], txs[i]), TxRef(i)>> :
        i \in {j \in TxIds : /\ txs[j] # Nil
                             /\ native.txOn[j].kind = "Conn"
                             /\ conns[native.txOn[j].id] # Nil}}
\* connTx defines Commit and Rollback; its other methods are its embedded Tx's.
TxRecvs == PlainTxRecvs \cup ConnTxRecvs
StmtRecvs == {<<stmts[i], StmtRef(i)>> : i \in {j \in StmtIds : stmts[j] # Nil}}
\* The Queryer of the handle is db.queryer, reached through wrappedDB's methods.
QueryerRecvs == DBRecvs \cup ConnRecvs \cup PlainTxRecvs

\* The native objects the successful calls named op of h created.
Created(h, op) ==
    {h.calls[k].ret.val : k \in {j \in DOMAIN h.calls :
                                   h.calls[j].op = op /\ h.calls[j].ret.err = NoErr}}

\* Answers to the calls that follow a lease: none is made when the lease fails.
Later(ol) == IF ol.err = NoErr THEN ErrOnly ELSE {Ret(Nil, NoErr)}
\* Answers to the Close a Commit or Rollback may make: only a connTx makes one.
CloseAnswers(tx) == IF tx.type = "connTx" THEN ErrOnly ELSE {Ret(Nil, NoErr)}

\* One operation of the layer: the environment can answer its native calls as
\* assumed, the native state moves accordingly and the operation is recorded.
Do(op, recv, h) ==
    /\ FeasibleRun(native, h.calls)
    /\ native' = Run(native, h.calls)
    /\ last' = [op |-> op, recv |-> recv[1], from |-> recv[2], calls |-> h.calls,
                ret |-> h.ret, wrote |-> h.wrote]

Pure(op, from, val) ==
    last' = [op |-> op, recv |-> Nil, from |-> from, calls |-> <<>>,
             ret |-> Ret(val, NoErr), wrote |-> FALSE]

\* ------------------------------------------------------------ constructors
DoOpen ==
    \E o \in Answers("sql.Open") :
        /\ Do("Open", <<Nil, o.val>>, Open(o))
        /\ UNCHANGED <<conns, txs, stmts>>

DoWrapDB ==
    \E d \in NativeDBs :
        /\ Pure("WrapDB", d, WrapDB(d))
        /\ UNCHANGED <<native, conns, txs, stmts>>

DoWrapQueryer ==
    \E d \in NativeDBs :
        /\ Pure("WrapQueryer", d, WrapQueryer(d))
        /\ UNCHANGED <<native, conns, txs, stmts>>

\* The caller wraps a connection it has just leased from database/sql itself.
DoWrapConn ==
    /\ HasFree(native.conn)
    /\ LET i == FirstFree(native.conn)
       IN  /\ native' = [native EXCEPT !.conn[i] = "open"]
           /\ conns' = [conns EXCEPT ![i] = WrapConn(ConnRef(i))]
           /\ Pure("WrapConn", ConnRef(i), WrapConn(ConnRef(i)))
    /\ UNCHANGED <<txs, stmts>>

\* The caller wraps a statement it has just prepared with database/sql itself.
DoWrapStmt ==
    /\ HasFree(native.stmt)
    /\ LET i == FirstFree(native.stmt)
       IN  /\ native' = [native EXCEPT !.stmt[i] = "open"]
           /\ stmts' = [stmts EXCEPT ![i] = WrapStmt(StmtRef(i))]
           /\ Pure("WrapStmt", StmtRef(i), WrapStmt(StmtRef(i)))
    /\ UNCHANGED <<conns, txs>>

\* --------------------------------------------------------- Database handle
DBConn ==
    \E r \in DBRecvs, o \in Answers("Conn") :
        LET h == wrappedDB_Conn(r[1], o)
        IN  /\ Do("DB.Conn", r, h)
            /\ conns' = [i \in ConnIds |->
                            IF ConnRef(i) \in Created(h, "Conn") THEN h.ret.val ELSE conns[i]]
            /\ UNCHANGED <<txs, stmts>>

DBUnwrap ==
    \E r \in DBRecvs :
        /\ last' = [op |-> "DB.Unwrap", recv |-> r[1], from |-> r[2], calls |-> <<>>,
                    ret |-> Ret(wrappedDB_Unwrap(r[1]), NoErr), wrote |-> FALSE]
        /\ UNCHANGED <<native, conns, txs, stmts>>

DBBeginTx ==
    \E r \in DBRecvs, o \in Answers("BeginTx") :
        LET h == wrappedDB_BeginTx(r[1], o)
        IN  /\ Do("DB.BeginTx", r, h)
            /\ txs' = [i \in TxIds |->
                          IF TxRef(i) \in Created(h, "BeginTx") THEN h.ret.val ELSE txs[i]]
            /\ UNCHANGED <<conns, stmts>>

DBPing ==
    \E r \in DBRecvs, ol \in Answers("Conn") :
      \E o \in Later(ol), oc \in Later(ol) :
        /\ Do("DB.Ping", r, wrappedDB_Ping(r[1], ol, o, oc))
        /\ UNCHANGED <<conns, txs, stmts>>

\* -------------------------------------------------------------- Connection
ConnBeginTx ==
    \E r \in ConnRecvs, o \in Answers("BeginTx") :
        LET h == wrappedConn_BeginTx(r[1], o)
        IN  /\ Do("Conn.BeginTx", r, h)
            /\ txs' = [i \in TxIds |->
                          IF TxRef(i) \in Created(h, "BeginTx") THEN h.ret.val ELSE txs[i]]
            /\ UNCHANGED <<conns, stmts>>

ConnClose ==
    \E r \in ConnRecvs, o \in ErrOnly :
        /\ Do("Conn.Close", r, wrappedConn_Close(r[1], o))
        /\ UNCHANGED <<conns, txs, stmts>>

ConnPing ==
    \E r \in ConnRecvs, o \in ErrOnly :
        /\ Do("Conn.Ping", r, wrappedConn_Ping(r[1], o))
        /\ UNCHANGED <<conns, txs, stmts>>

\* ------------------------------------------------------------- Transaction
Commit ==
    \E r \in TxRecvs, o \in ErrOnly :
      \E oc \in CloseAnswers(r[1]) :
        /\ Do("Commit", r, Tx_Commit(r[1], o, oc))
        /\ UNCHANGED <<conns, txs, stmts>>

Rollback ==
    \E r \in TxRecvs, o \in ErrOnly :
      \E oc \in CloseAnswers(r[1]) :
        /\ Do("Rollback", r, Tx_Rollback(r[1], o, oc))
        /\ UNCHANGED <<conns, txs, stmts>>

Stmt ==
    \E r \in PlainTxRecvs, s \in StmtRecvs, o \in Answers("StmtContext") :
        LET h == wrappedTx_Stmt(r[1], s[1], o)
        IN  /\ Do("Stmt", r, h)
            /\ stmts' = [i \in StmtIds |->
                            IF StmtRef(i) \in Created(h, "StmtContext") THEN h.ret.val
                            ELSE stmts[i]]
            /\ UNCHANGED <<conns, txs>>

\* -------------------------------------------------------- Query capability
Exec ==
    \E r \in QueryerRecvs, o \in Answers("ExecContext") :
        /\ Do("Exec", r, Queryer_Exec(r[1], o))
        /\ UNCHANGED <<conns, txs, stmts>>

Prepare ==
    \E r \in QueryerRecvs, o \in Answers("PrepareContext") :
        LET h == Queryer_Prepare(r[1], o)
        IN  /\ Do("Prepare", r, h)
            /\ stmts' = [i \in StmtIds |->
                            IF StmtRef(i) \in Created(h, "PrepareContext") THEN h.ret.val
                            ELSE stmts[i]]
            /\ UNCHANGED <<conns, txs>>

Query ==
    \E r \in QueryerRecvs, o \in Answers("QueryContext") :
        /\ Do("Query", r, Queryer_Query(r[1], o))
        /\ UNCHANGED <<conns, txs, stmts>>

QueryRow ==
    \E r \in QueryerRecvs, o \in Answers("QueryRowContext") :
        LET h == Queryer_QueryRow(r[1], o)
        IN  /\ Do("QueryRow", r, h)
            /\ UNCHANGED <<conns, txs, stmts>>

\* --------------------------------------------------------------- Statement
StmtExec ==
    \E r \in StmtRecvs, o \in Answers("ExecContext") :
        /\ Do("Stmt.Exec", r, wrappedStmt_Exec(r[1], o))
        /\ UNCHANGED <<conns, txs, stmts>>

StmtQuery ==
    \E r \in StmtRecvs, o \in Answers("QueryContext") :
        /\ Do("Stmt.Query", r, wrappedStmt_Query(r[1], o))
        /\ UNCHANGED <<conns, txs, stmts>>

StmtQueryRow ==
    \E r \in StmtRecvs, o \in Answers("QueryRowContext") :
        LET h == wrappedStmt_QueryRow(r[1], o)
        IN  /\ Do("Stmt.QueryRow", r, h)
            /\ UNCHANGED <<conns, txs, stmts>>

StmtUnwrap ==
    \E r \in StmtRecvs :
        /\ last' = [op |-> "Stmt.Unwrap", recv |-> r[1], from |-> r[2], calls |-> <<>>,
                    ret |-> Ret(wrappedStmt_Unwrap(r[1]), NoErr), wrote |-> FALSE]
        /\ UNCHANGED <<native, conns, txs, stmts>>

\* --------------------------------------------------------------------- Row
\* A Row holding a captured error (the composite literal errRow{err}).
NewErrRow ==
    \E e \in {"ErrDriver", "ErrConnDone"} :
        /\ Pure("errRow", Nil, errRow(e))
        /\ UNCHANGED <<native, conns, txs, stmts>>

\* The Row the caller holds: a Row is ephemeral, scanned right after it is
\* obtained.  A *sql.Row is used once; an errRow can be scanned again.
HeldRow ==
    CASE last.op \in {"QueryRow", "Stmt.QueryRow", "errRow"} -> last.ret.val
      [] last.op = "Scan" /\ last.recv.type = "errRow" -> last.recv
      [] OTHER -> Nil

Scan ==
    /\ HeldRow # Nil
    /\ \E o \in Answers("Scan") :
        /\ Do("Scan", <<HeldRow, Nil>>, Row_Scan(HeldRow, o))
        /\ UNCHANGED <<conns, txs, stmts>>

Next ==
    \/ DoOpen \/ DoWrapDB \/ DoWrapQueryer \/ DoWrapConn \/ DoWrapStmt
    \/ DBConn \/ DBUnwrap \/ DBBeginTx \/ DBPing
    \/ ConnBeginTx \/ ConnClose \/ ConnPing
    \/ Commit \/ Rollback \/ Stmt
    \/ Exec \/ Prepare \/ Query \/ QueryRow
    \/ StmtExec \/ StmtQuery \/ StmtQueryRow \/ StmtUnwrap
    \/ NewErrRow \/ Scan

Spec == Init /\ [][Next]_vars

\* ------------------------------------------------------------------ claims
IsCommit == last.op \in {"Commit", "Rollback"}
QueryOps == {"Exec", "Prepare", "Query", "QueryRow"}
StmtOps == {"Stmt.Exec", "Stmt.Query", "Stmt.QueryRow"}
\* The native operation that corresponds to an operation of the layer.
NativeOp(op) ==
    CASE op \in {"Exec", "Stmt.Exec"} -> "ExecContext"
      [] op \in {"Query", "Stmt.Query"} -> "QueryContext"
      [] op \in {"QueryRow", "Stmt.QueryRow"} -> "QueryRowContext"
      [] op = "Prepare" -> "PrepareContext"
      [] OTHER -> op
ClosesIn(calls) == {k \in DOMAIN calls : calls[k].op = "Close"}
\* The error a Row carries from a query that failed before a row was fetched.
Captured(r) == IF r.type = "errRow" THEN r.err ELSE r.ptr.err

\* C1: when Commit or Rollback returns on a Transaction obtained by BeginTx on
\* a leased Connection, that Connection has been closed: Close was invoked on
\* it after the native commit/rollback, and the connection is closed.
C1_LeasedConnClosedOnCommit ==
    (IsCommit /\ last.recv.type = "wrappedTx" /\ native.txOn[last.from.id].kind = "Conn")
        => /\ native.conn[native.txOn[last.from.id].id] = "closed"
           /\ \E k \in ClosesIn(last.calls) :
                 /\ k > 1
                 /\ last.calls[k].target = native.txOn[last.from.id]

\* C2: Commit (Rollback) of a connection-owning Transaction returns exactly
\* the outcome of the native commit (rollback), whatever the deferred Close of
\* the connection returned.
C2_CommitResultNotMasked ==
    (IsCommit /\ last.recv.type = "connTx")
        => /\ Len(last.calls) = 2
           /\ last.calls[1].op = last.op
           /\ last.calls[1].target = last.from
           /\ last.calls[2].op = "Close"
           /\ last.ret = last.calls[1].ret
C2_Witness ==
    /\ IsCommit /\ last.recv.type = "connTx"
    /\ Len(last.calls) = 2
    /\ last.calls[1].ret.err = NoErr
    /\ last.calls[2].ret.err # NoErr

\* C3: Commit and Rollback of a Transaction begun on the Database handle make
\* one native call, the commit (rollback) of its native transaction, and no
\* Close on anything, whatever the outcome.
C3_PoolTxOnlyDelegates ==
    (IsCommit /\ last.recv.type = "wrappedTx" /\ native.txOn[last.from.id].kind = "DB")
        => /\ Len(last.calls) = 1
           /\ last.calls[1].op = last.op
           /\ last.calls[1].target = last.from
           /\ ClosesIn(last.calls) = {}
           /\ last.ret = last.calls[1].ret
C3_Witness ==
    /\ IsCommit /\ last.recv.type = "wrappedTx"
    /\ native.txOn[last.from.id].kind = "DB"
    /\ last.ret.err # NoErr

\* C4: Ping on the Database handle leases a connection; if the lease fails it
\* returns the lease error and makes no other call; otherwise it pings the
\* leased connection, closes it exactly once, after the ping, on the success
\* and the failure path alike, returns the ping's outcome, and leaves the
\* leased connection closed.
C4_PingLeasesPingsReleases ==
    (last.op = "DB.Ping")
        => /\ Len(last.calls) >= 1
           /\ last.calls[1].op = "Conn"
           /\ last.calls[1].target = last.from
           /\ IF last.calls[1].ret.err # NoErr
              THEN /\ Len(last.calls) = 1
                   /\ last.ret = Ret(Nil, last.calls[1].ret.err)
              ELSE LET c == last.calls[1].ret.val
                   IN  /\ Len(last.calls) = 3
                       /\ last.calls[2].op = "PingContext"
                       /\ last.calls[2].target = c
                       /\ ClosesIn(last.calls) = {3}
                       /\ last.calls[3].target = c
                       /\ last.ret = Ret(Nil, last.calls[2].ret.err)
                       /\ native.conn[c.id] = "closed"
C4_Witness ==
    /\ last.op = "DB.Ping"
    /\ Len(last.calls) = 3
    /\ last.calls[2].ret.err # NoErr
    /\ last.ret.err = last.calls[2].ret.err

\* C5: Unwrap returns the very native object the wrapper was made from: the
\* handle given to WrapDB, the statement given to WrapStmt; and every Stmt
\* wrapper held keeps unwrapping to its native statement.
C5_UnwrapInvertsWrap ==
    /\ last.op \in {"DB.Unwrap", "Stmt.Unwrap"} => last.ret = Ret(last.from, NoErr)
    /\ \A i \in StmtIds : stmts[i] # Nil => wrappedStmt_Unwrap(stmts[i]) = StmtRef(i)
C5_Witness ==
    /\ last.op = "DB.Unwrap"
    /\ last.ret.val \in NativeDBs
    /\ \E i \in TxIds : native.tx[i] # "free"

\* C6: every Exec, Prepare, Query or QueryRow on a wrapper issues exactly one
\* native operation, the corresponding one, on the wrapped native object,
\* also when that operation fails.
C6_ExactlyOneNativeCall ==
    (last.op \in QueryOps \cup StmtOps)
        => /\ Len(last.calls) = 1
           /\ last.calls[1].op = NativeOp(last.op)
           /\ last.calls[1].target = last.from
C6_Witness ==
    /\ last.op = "Exec"
    /\ last.recv.type = "wrappedConn"
    /\ last.calls[1].ret.err # NoErr

\* C7: Exec, Prepare and Query forward the native outcome verbatim: on error e
\* they return a nil result with e; on success with r a nil error with r
\* (Exec: r itself; Query: the native cursor; Prepare: a Stmt that unwraps to
\* r); exactly one of result and error is non-nil.
C7_VerbatimForwarding ==
    (last.op \in {"Exec", "Prepare", "Query", "Stmt.Exec", "Stmt.Query"} /\ last.calls # <<>>)
        => LET n == last.calls[1].ret
           IN  /\ (last.ret.val = Nil) # (last.ret.err = NoErr)
               /\ IF n.err # NoErr THEN last.ret = Ret(Nil, n.err)
                  ELSE /\ last.ret.err = NoErr
                       /\ CASE last.op \in {"Exec", "Stmt.Exec"} -> last.ret.val = n.val
                            [] last.op \in {"Query", "Stmt.Query"} ->
                                   last.ret.val = ToRows(n.val) /\ n.val # Nil
                            [] OTHER ->
                                   /\ last.ret.val.type = "wrappedStmt"
                                   /\ wrappedStmt_Unwrap(last.ret.val) = n.val
C7_Witness ==
    /\ last.op = "Query"
    /\ last.calls[1].ret.err = "ErrConnDone"
    /\ last.ret.val = Nil

\* C8: QueryRow returns a Row and no error whatever the native outcome; the
\* failure, "no rows" included, is returned by that Row's Scan.
C8_QueryRowDefersFailure ==
    /\ (last.op \in {"QueryRow", "Stmt.QueryRow"})
           => /\ last.ret.err = NoErr
              /\ last.ret.val # Nil
              /\ Len(last.calls) = 1
              /\ last.ret.val = ToRow(last.calls[1].ret.val)
    /\ (last.op = "Scan" /\ last.recv.type = "*sql.Row")
           => last.ret.err = IF last.recv.ptr.err # NoErr THEN last.recv.ptr.err
                             ELSE IF last.recv.ptr.fetch = "norows" THEN "ErrNoRows"
                             ELSE NoErr
C8_Witness ==
    /\ last.op = "Scan"
    /\ last.recv.type = "*sql.Row"
    /\ last.ret.err = "ErrNoRows"

C10_TxRoutesToItsNativeTx ==
    /\ (last.op \in {"DB.BeginTx", "Conn.BeginTx"})
           => /\ Len(last.calls) = 1
              /\ LET n == last.calls[1].ret
                 IN  IF n.err # NoErr THEN last.ret = Ret(Nil, n.err)
                     ELSE last.ret = Ret(wrappedTx(n.val, WrapQueryer(n.val)), NoErr)
    /\ \A i \in TxIds : txs[i] # Nil =>
           /\ txs[i].tx = TxRef(i)
           /\ txs[i].Queryer.SQLQueryer = TxRef(i)
    /\ (last.op \in QueryOps \cup {"Stmt"} /\ last.recv.type = "wrappedTx")
           => \A k \in DOMAIN last.calls : last.calls[k].target = last.from
    /\ (last.op = "Stmt")
           => /\ Len(last.calls) = 1
              /\ last.calls[1].op = "StmtContext"
              /\ last.ret.val = WrapStmt(last.calls[1].ret.val)
C10_Witness ==
    /\ last.op \in QueryOps
    /\ last.recv.type = "wrappedTx"
    /\ native.txOn[last.from.id].kind = "Conn"
    /\ last.calls[1].target.kind = "Tx"

====
